---- MODULE Spec2Model ----
(***************************************************************************)
(* State machine of the AIFirewallFHE contract: the access-control         *)
(* registry, the batch ledger, the fold of encrypted transaction           *)
(* attributes into the current batch, and the decryption request/callback  *)
(* protocol with the decryption oracle.                                    *)
(*                                                                         *)
(* A call that reverts leaves the contract storage unchanged (EVM revert); *)
(* the model records the outcome of the most recent call in lastCall and   *)
(* the events it emitted in emitted.                                       *)
(***************************************************************************)
EXTENDS Integers, Sequences, FiniteSets, TLC

\* ---------------------------------------------------------------- bounds
\* batches opened in a behaviour
MaxBatches == 2

\* submissions accepted in a behaviour, over all batches
MaxSubmissions == 2

\* seconds the clock advances in a behaviour
MaxTicks == 1

\* submitTransaction calls per web client
MaxClientSubmissions == 2

\* ------------------------------------------------- 32-bit unsigned values
\* A uint32 is kept as <<high half, low half>> of 16 bits each, so that the
\* arithmetic keeps its exact width (the sum wraps modulo 2^32).
Half == 65536

U32(hi, lo) == <<hi, lo>>

Zero32 == U32(0, 0)

One32 == U32(0, 1)

\* 2**32 - 1
MaxUint32 == U32(Half - 1, Half - 1)

\* wrapping addition of euint32 plaintexts
Add32(a, b) ==
    LET lo == a[2] + b[2]
        hi == a[1] + b[1] + (lo \div Half)
    IN  U32(hi % Half, lo % Half)

Le32(a, b) == a[1] < b[1] \/ (a[1] = b[1] /\ a[2] <= b[2])

\* mutant: the larger value is taken to be the later one
Max32_TakesLater(a, b) == b

Max32(a, b) == IF Le32(a, b) THEN b ELSE a

Min32(a, b) == IF Le32(a, b) THEN a ELSE b

\* ------------------------------------------------ 256-bit unsigned values
\* A uint256 that enters checked arithmetic is kept as 16 limbs of 16 bits,
\* most significant first, so that an overflow of 2^256 - 1 is exact.
LimbIds == 1..16

\* a number below 2^16 as a uint256
Uint256(n) == [i \in LimbIds |-> IF i = 16 THEN n ELSE 0]

\* type(uint256).max
MaxUint256 == [i \in LimbIds |-> Half - 1]

RECURSIVE CarryInto(_, _, _)
\* the carry out of the limbs i..16 of a + b
CarryInto(a, b, i) ==
    IF i > 16 THEN 0 ELSE (a[i] + b[i] + CarryInto(a, b, i + 1)) \div Half

\* a + b overflows uint256 (checked arithmetic reverts with a panic)
Overflows256(a, b) == CarryInto(a, b, 1) = 1

Add256(a, b) == [i \in LimbIds |-> (a[i] + b[i] + CarryInto(a, b, i + 1)) % Half]

Lt256(a, b) ==
    \E i \in LimbIds : a[i] < b[i] /\ \A j \in LimbIds : j < i => a[j] = b[j]

\* ------------------------------------------------ encrypted values (FHE)
\* An euint32 is its ciphertext handle; the handle of a never-assigned
\* euint32 is zero (not initialized).
Uninitialized == [init |-> FALSE, v |-> Zero32]

FHE_asEuint32(n) == [init |-> TRUE, v |-> n]

FHE_isInitialized(e) == e.init

\* the library reads a not-initialized operand as an encryption of 0
Plain(e) == IF FHE_isInitialized(e) THEN e.v ELSE Zero32

FHE_add(a, b) == FHE_asEuint32(Add32(Plain(a), Plain(b)))

FHE_max(a, b) == FHE_asEuint32(Max32(Plain(a), Plain(b)))

FHE_min(a, b) == FHE_asEuint32(Min32(Plain(a), Plain(b)))

FHE_ge(a, b) == Le32(Plain(b), Plain(a))

FHE_ite(c, a, b) == IF c THEN a ELSE b

FHE_toBytes32(e) == e

\* ------------------------------------------------------------ identities
Deployer == "deployer"

Addresses == {Deployer, "alice"}

ThisAddress == "AIFirewallFHE"

\* cooldownSeconds = 30
InitialCooldownSeconds == 30

\* identities the owner registers as providers in the model
ProviderCandidates == {"alice"}

\* durations the owner sets in the model
CooldownChoices == {Uint256(1), MaxUint256}

\* block.timestamp of the deployment: later than the initial cooldown
GenesisTime == InitialCooldownSeconds + 1

\* plaintexts (value, recipientScore, threshold) the providers encrypt and submit
Submissions ==
    { <<One32, U32(0, 5), U32(0, 5)>>,
      <<MaxUint32, U32(0, 4), U32(0, 5)>> }

BatchIds == 0..MaxBatches

RequestIds == 0..MaxBatches

\* ------------------------------------------------------------------ state
VARIABLES
    owner,                 \* address public owner
    isProvider,            \* mapping(address => bool)
    lastSubmissionTime,    \* mapping(address => uint256)
    cooldownSeconds,       \* uint256
    paused,                \* bool
    currentBatchId,        \* uint256
    batches,               \* mapping(uint256 => Batch)
    decryptionContexts,    \* mapping(uint256 => DecryptionContext)
    now,                   \* block.timestamp
    requestCounter,        \* the oracle's next request handle
    oracleRequests,        \* the ciphertexts the oracle was asked to decrypt
    submitted,             \* per batch, the plaintexts of the accepted submissions
    lastCall,              \* the most recent call and its outcome
    emitted,               \* the events the most recent call emitted
    dataStore,             \* web client: the key-value store behind getData/setData
    webClients             \* web client: each client's position in submitTransaction

storage == <<owner, isProvider, lastSubmissionTime, cooldownSeconds, paused,
             currentBatchId, batches, decryptionContexts>>

environment == <<now, requestCounter, oracleRequests, submitted>>

\* the state of the web client and of its store
webClient == <<dataStore, webClients>>

vars == <<owner, isProvider, lastSubmissionTime, cooldownSeconds, paused,
          currentBatchId, batches, decryptionContexts, now, requestCounter,
          oracleRequests, submitted, lastCall, emitted, dataStore, webClients>>

RECURSIVE AcceptedUpTo(_)
\* the number of submissions accepted into the batches 0..b
AcceptedUpTo(b) ==
    IF b = 0 THEN Len(submitted[0]) ELSE Len(submitted[b]) + AcceptedUpTo(b - 1)

\* the value of a mapping slot never written
EmptyBatch ==
    [id |-> 0, active |-> FALSE, transactionCount |-> 0,
     encryptedTotalValue |-> Uninitialized,
     encryptedMaxValue |-> Uninitialized,
     encryptedMinValue |-> Uninitialized,
     encryptedSuspiciousCount |-> Uninitialized]

ZeroHash == << <<>>, "0x0" >>

EmptyContext == [batchId |-> 0, stateHash |-> ZeroHash, processed |-> FALSE]

\* keccak256(abi.encode(cts, address(this))), taken as collision-free
hashCiphertexts(cts) == <<cts, ThisAddress>>

\* mutant: the sum and the max change places
Ciphertexts_MaxFirst(batch) ==
    << FHE_toBytes32(batch.encryptedMaxValue),
       FHE_toBytes32(batch.encryptedTotalValue),
       FHE_toBytes32(batch.encryptedMinValue),
       FHE_toBytes32(batch.encryptedSuspiciousCount) >>

\* the four accumulators in the order they are handed to the oracle
Ciphertexts(batch) ==
    << FHE_toBytes32(batch.encryptedTotalValue),
       FHE_toBytes32(batch.encryptedMaxValue),
       FHE_toBytes32(batch.encryptedMinValue),
       FHE_toBytes32(batch.encryptedSuspiciousCount) >>

Call(op, sender, arg, proofOk, err) ==
    [op |-> op, sender |-> sender, arg |-> arg, proofOk |-> proofOk, err |-> err]

\* mutant: a revert after line 153 does not roll the timestamp back
Revert_KeepsTimestamp(op, sender, arg, proofOk, err) ==
    /\ lastCall' = Call(op, sender, arg, proofOk, err)
    /\ emitted' = <<>>
    /\ lastSubmissionTime' =
          IF op = "analyzeTransaction" /\ err = "InvalidBatch"
          THEN [lastSubmissionTime EXCEPT ![sender] = now]
          ELSE lastSubmissionTime
    /\ UNCHANGED <<owner, isProvider, cooldownSeconds, paused, currentBatchId,
                   batches, decryptionContexts>>
    /\ UNCHANGED environment

\* revert: nothing but the outcome of the call changes
Revert(op, sender, arg, proofOk, err) ==
    /\ lastCall' = Call(op, sender, arg, proofOk, err)
    /\ emitted' = <<>>
    /\ UNCHANGED storage
    /\ UNCHANGED environment

\* ------------------------------------------------------- web client data
\* the browser sessions that submit
Clients == {"c1", "c2"}

\* the ids submitTransaction generates (time stamp and random suffix): the
\* n-th id of client c
TxIds == {<<c, n>> : c \in Clients, n \in 1..MaxClientSubmissions}

KeysKey == <<"transaction_keys">>

RecordKey(txId) == <<"transaction", txId[1], txId[2]>>

DataKeys == {KeysKey} \cup {RecordKey(txId) : txId \in TxIds}

\* the bytes of a key nothing was stored under
EmptyBytes == <<>>

\* ethers.toUtf8Bytes(JSON.stringify(value))
Stringify(value) == <<"json", value>>

\* the key list read back: no bytes give the empty list, else JSON.parse
ParseKeys(bytes) == IF Len(bytes) > 0 THEN bytes[2] ELSE <<>>

\* contract.getData(key)
getData(key) == dataStore[key]

\* contract.setData(key, value): the store after the write
setData(key, value) == [dataStore EXCEPT ![key] = value]

Init ==
    /\ dataStore = [k \in DataKeys |-> EmptyBytes]
    /\ webClients = [c \in Clients |-> [pc |-> "idle", txId |-> <<c, 0>>,
                                         keys |-> <<>>, completed |-> 0]]
    /\ owner = Deployer
    /\ isProvider = [a \in Addresses |-> FALSE]
    /\ lastSubmissionTime = [a \in Addresses |-> 0]
    /\ cooldownSeconds = Uint256(InitialCooldownSeconds)
    /\ paused = FALSE
    /\ currentBatchId = 0
    /\ batches = [b \in BatchIds |-> EmptyBatch]
    /\ decryptionContexts = [r \in RequestIds |-> EmptyContext]
    /\ now = GenesisTime
    /\ requestCounter = 0
    /\ oracleRequests = [r \in RequestIds |-> <<>>]
    /\ submitted = [b \in BatchIds |-> <<>>]
    /\ lastCall = Call("constructor", Deployer, 0, TRUE, "none")
    /\ emitted = << <<"OwnershipTransferred", "0x0", Deployer>> >>

\* -------------------------------------------------------------- modifiers
\* mutant: the owner check lets every caller through
onlyOwner_Anyone(sender) == TRUE

\* modifier onlyOwner
onlyOwner(sender) == sender = owner

\* modifier onlyProvider
onlyProvider(sender) == isProvider[sender]

\* mutant: the pause check lets every call through
whenNotPaused_Always == TRUE

\* modifier whenNotPaused
whenNotPaused == ~paused

\* ------------------------------------------------------- registry actions
transferOwnership(sender, newOwner) ==
    IF ~onlyOwner(sender) THEN Revert("transferOwnership", sender, 0, TRUE, "NotOwner")
    ELSE
        /\ owner' = newOwner
        /\ lastCall' = Call("transferOwnership", sender, 0, TRUE, "none")
        /\ emitted' = << <<"OwnershipTransferred", owner, newOwner>> >>
        /\ UNCHANGED <<isProvider, lastSubmissionTime, cooldownSeconds, paused,
                       currentBatchId, batches, decryptionContexts>>
        /\ UNCHANGED environment

addProvider(sender, provider) ==
    IF ~onlyOwner(sender) THEN Revert("addProvider", sender, 0, TRUE, "NotOwner")
    ELSE
        /\ isProvider' = [isProvider EXCEPT ![provider] = TRUE]
        /\ lastCall' = Call("addProvider", sender, 0, TRUE, "none")
        /\ emitted' = << <<"ProviderAdded", provider>> >>
        /\ UNCHANGED <<owner, lastSubmissionTime, cooldownSeconds, paused,
                       currentBatchId, batches, decryptionContexts>>
        /\ UNCHANGED environment

\* mutant: removeProvider flips the membership
removeProvider_Flips(sender, provider) ==
    IF ~onlyOwner(sender) THEN Revert("removeProvider", sender, 0, TRUE, "NotOwner")
    ELSE
        /\ isProvider' = [isProvider EXCEPT ![provider] = ~isProvider[provider]]
        /\ lastCall' = Call("removeProvider", sender, 0, TRUE, "none")
        /\ emitted' = << <<"ProviderRemoved", provider>> >>
        /\ UNCHANGED <<owner, lastSubmissionTime, cooldownSeconds, paused,
                       currentBatchId, batches, decryptionContexts>>
        /\ UNCHANGED environment

removeProvider(sender, provider) ==
    IF ~onlyOwner(sender) THEN Revert("removeProvider", sender, 0, TRUE, "NotOwner")
    ELSE
        /\ isProvider' = [isProvider EXCEPT ![provider] = FALSE]
        /\ lastCall' = Call("removeProvider", sender, 0, TRUE, "none")
        /\ emitted' = << <<"ProviderRemoved", provider>> >>
        /\ UNCHANGED <<owner, lastSubmissionTime, cooldownSeconds, paused,
                       currentBatchId, batches, decryptionContexts>>
        /\ UNCHANGED environment

setCooldownSeconds(sender, newCooldownSeconds) ==
    IF ~onlyOwner(sender) THEN Revert("setCooldownSeconds", sender, 0, TRUE, "NotOwner")
    ELSE
        /\ cooldownSeconds' = newCooldownSeconds
        /\ lastCall' = Call("setCooldownSeconds", sender, 0, TRUE, "none")
        /\ emitted' = << <<"CooldownSecondsUpdated", cooldownSeconds, newCooldownSeconds>> >>
        /\ UNCHANGED <<owner, isProvider, lastSubmissionTime, paused,
                       currentBatchId, batches, decryptionContexts>>
        /\ UNCHANGED environment

pause(sender) ==
    IF ~onlyOwner(sender) THEN Revert("pause", sender, 0, TRUE, "NotOwner")
    ELSE IF ~whenNotPaused THEN Revert("pause", sender, 0, TRUE, "Paused")
    ELSE
        /\ paused' = TRUE
        /\ lastCall' = Call("pause", sender, 0, TRUE, "none")
        /\ emitted' = << <<"PausedContract", sender>> >>
        /\ UNCHANGED <<owner, isProvider, lastSubmissionTime, cooldownSeconds,
                       currentBatchId, batches, decryptionContexts>>
        /\ UNCHANGED environment

\* mutant: unpause does not check that the contract is paused
unpause_Unchecked(sender) ==
    IF ~onlyOwner(sender) THEN Revert("unpause", sender, 0, TRUE, "NotOwner")
    ELSE
        /\ paused' = FALSE
        /\ lastCall' = Call("unpause", sender, 0, TRUE, "none")
        /\ emitted' = << <<"UnpausedContract", sender>> >>
        /\ UNCHANGED <<owner, isProvider, lastSubmissionTime, cooldownSeconds,
                       currentBatchId, batches, decryptionContexts>>
        /\ UNCHANGED environment

unpause(sender) ==
    IF ~onlyOwner(sender) THEN Revert("unpause", sender, 0, TRUE, "NotOwner")
    ELSE IF ~paused THEN Revert("unpause", sender, 0, TRUE, "Paused")
    ELSE
        /\ paused' = FALSE
        /\ lastCall' = Call("unpause", sender, 0, TRUE, "none")
        /\ emitted' = << <<"UnpausedContract", sender>> >>
        /\ UNCHANGED <<owner, isProvider, lastSubmissionTime, cooldownSeconds,
                       currentBatchId, batches, decryptionContexts>>
        /\ UNCHANGED environment

\* ---------------------------------------------------------- batch ledger
\* mutant: the min accumulator is seeded with 0 like the others
NewBatch_MinSeedZero(id) ==
    [id |-> id,
     active |-> TRUE,
     transactionCount |-> 0,
     encryptedTotalValue |-> FHE_asEuint32(Zero32),
     encryptedMaxValue |-> FHE_asEuint32(Zero32),
     encryptedMinValue |-> FHE_asEuint32(Zero32),
     encryptedSuspiciousCount |-> FHE_asEuint32(Zero32)]

\* the batch openBatch writes under the next id
NewBatch(id) ==
    [id |-> id,
     active |-> TRUE,
     transactionCount |-> 0,
     encryptedTotalValue |-> FHE_asEuint32(Zero32),
     encryptedMaxValue |-> FHE_asEuint32(Zero32),
     encryptedMinValue |-> FHE_asEuint32(MaxUint32),
     encryptedSuspiciousCount |-> FHE_asEuint32(Zero32)]

\* mutant: openBatch does not check that the current batch is closed
openBatchError_NoActiveCheck(sender) ==
    IF ~onlyOwner(sender) THEN "NotOwner"
    ELSE IF ~whenNotPaused THEN "Paused"
    ELSE "none"

\* the checks of openBatch, in the order of the code
openBatchError(sender) ==
    IF ~onlyOwner(sender) THEN "NotOwner"
    ELSE IF ~whenNotPaused THEN "Paused"
    ELSE IF batches[currentBatchId].active THEN "BatchNotActive"
    ELSE "none"

\* mutant: openBatch does not advance the batch id
NextBatchId_NoIncrement == currentBatchId

\* currentBatchId++
NextBatchId == currentBatchId + 1

openBatch(sender) ==
    IF openBatchError(sender) # "none"
    THEN Revert("openBatch", sender, 0, TRUE, openBatchError(sender))
    ELSE
        /\ currentBatchId < MaxBatches
        /\ currentBatchId' = NextBatchId
        /\ batches' = [batches EXCEPT ![NextBatchId] = NewBatch(NextBatchId)]
        /\ lastCall' = Call("openBatch", sender, 0, TRUE, "none")
        /\ emitted' = << <<"BatchOpened", NextBatchId>> >>
        /\ UNCHANGED <<owner, isProvider, lastSubmissionTime, cooldownSeconds,
                       paused, decryptionContexts>>
        /\ UNCHANGED environment

\* mutant: closeBatch leaves the batch active
Deactivated_KeepsActive(batch) == batch

\* batch.active = false
Deactivated(batch) == [batch EXCEPT !.active = FALSE]

\* mutant: a decryption is requested for an empty batch too
NeedsDecryption_Always(batch) == batch.transactionCount >= 0

\* a decryption is requested for a batch that received contributions
NeedsDecryption(batch) == batch.transactionCount > 0

\* the context closeBatch records under the handle the oracle returned
NewContext(batchId, cts) ==
    [batchId |-> batchId, stateHash |-> hashCiphertexts(cts), processed |-> FALSE]

\* mutant: the oracle hands out the same handle again
RequestHandle_Reused == IF requestCounter > 0 THEN requestCounter - 1 ELSE requestCounter

\* the handle FHE.requestDecryption returns: the oracle's request counter
RequestHandle == requestCounter

\* mutant: closeBatch does not check that the current batch is active
closeBatchError_NoActiveCheck(sender) ==
    IF ~onlyOwner(sender) THEN "NotOwner"
    ELSE IF ~whenNotPaused THEN "Paused"
    ELSE "none"

\* the checks of closeBatch, in the order of the code
closeBatchError(sender) ==
    IF ~onlyOwner(sender) THEN "NotOwner"
    ELSE IF ~whenNotPaused THEN "Paused"
    ELSE IF ~batches[currentBatchId].active THEN "InvalidBatch"
    ELSE "none"

closeBatch(sender) ==
    LET batch == batches[currentBatchId] IN
    IF closeBatchError(sender) # "none"
    THEN Revert("closeBatch", sender, 0, TRUE, closeBatchError(sender))
    ELSE
        /\ batches' = [batches EXCEPT ![currentBatchId] = Deactivated(batch)]
        /\ lastCall' = Call("closeBatch", sender, 0, TRUE, "none")
        /\ UNCHANGED <<owner, isProvider, lastSubmissionTime, cooldownSeconds,
                       paused, currentBatchId, now, submitted>>
        /\ IF NeedsDecryption(batch)
           THEN LET cts == Ciphertexts(batch)
                    requestId == RequestHandle
                IN  /\ requestId \in RequestIds
                    /\ oracleRequests' = [oracleRequests EXCEPT ![requestId] = cts]
                    /\ requestCounter' = requestCounter + 1
                    /\ decryptionContexts' =
                         [decryptionContexts EXCEPT ![requestId] = NewContext(currentBatchId, cts)]
                    /\ emitted' =
                         << <<"BatchClosed", currentBatchId, batch.transactionCount>>,
                            <<"DecryptionRequested", requestId, currentBatchId>> >>
           ELSE /\ emitted' = << <<"BatchClosed", currentBatchId, batch.transactionCount>> >>
                /\ UNCHANGED <<oracleRequests, requestCounter, decryptionContexts>>

\* ---------------------------------------------------- transaction analysis
\* the fold of one submission into the batch's accumulators and count
\* mutant: the fold leaves the transaction count alone
Fold_NoCount(batch, encryptedValue, encryptedRecipientScore, encryptedThreshold) ==
    LET isSuspicious == FHE_ge(encryptedRecipientScore, encryptedThreshold) IN
    [batch EXCEPT
       !.encryptedTotalValue = FHE_add(batch.encryptedTotalValue, encryptedValue),
       !.encryptedMaxValue = FHE_max(batch.encryptedMaxValue, encryptedValue),
       !.encryptedMinValue = FHE_min(batch.encryptedMinValue, encryptedValue),
       !.encryptedSuspiciousCount =
           FHE_add(batch.encryptedSuspiciousCount,
                   FHE_ite(isSuspicious, FHE_asEuint32(One32), FHE_asEuint32(Zero32)))]

Fold(batch, encryptedValue, encryptedRecipientScore, encryptedThreshold) ==
    LET isSuspicious == FHE_ge(encryptedRecipientScore, encryptedThreshold) IN
    [batch EXCEPT
       !.encryptedTotalValue = FHE_add(batch.encryptedTotalValue, encryptedValue),
       !.encryptedMaxValue = FHE_max(batch.encryptedMaxValue, encryptedValue),
       !.encryptedMinValue = FHE_min(batch.encryptedMinValue, encryptedValue),
       !.encryptedSuspiciousCount =
           FHE_add(batch.encryptedSuspiciousCount,
                   FHE_ite(isSuspicious, FHE_asEuint32(One32), FHE_asEuint32(Zero32))),
       !.transactionCount = batch.transactionCount + 1]

\* mutant: analyzeTransaction does not check that the current batch is active
analyzeTransactionError_NoBatchCheck(sender) ==
    LET last == Uint256(lastSubmissionTime[sender]) IN
    IF ~onlyProvider(sender) THEN "NotProvider"
    ELSE IF ~whenNotPaused THEN "Paused"
    ELSE IF Overflows256(last, cooldownSeconds) THEN "Panic"
    ELSE IF Lt256(Uint256(now), Add256(last, cooldownSeconds)) THEN "CooldownActive"
    ELSE "none"

\* the checks of analyzeTransaction, in the order of the code; the checked
\* addition lastSubmissionTime + cooldownSeconds reverts with a panic when
\* it overflows
analyzeTransactionError(sender) ==
    LET last == Uint256(lastSubmissionTime[sender]) IN
    IF ~onlyProvider(sender) THEN "NotProvider"
    ELSE IF ~whenNotPaused THEN "Paused"
    ELSE IF Overflows256(last, cooldownSeconds) THEN "Panic"
    ELSE IF Lt256(Uint256(now), Add256(last, cooldownSeconds)) THEN "CooldownActive"
    ELSE IF ~batches[currentBatchId].active THEN "InvalidBatch"
    ELSE "none"

analyzeTransaction(sender, encryptedValue, encryptedRecipientScore, encryptedThreshold) ==
    LET batch == batches[currentBatchId] IN
    IF analyzeTransactionError(sender) # "none"
    THEN Revert("analyzeTransaction", sender, 0, TRUE, analyzeTransactionError(sender))
    ELSE
        LET folded == Fold(batch, encryptedValue, encryptedRecipientScore, encryptedThreshold)
        IN  /\ AcceptedUpTo(MaxBatches) < MaxSubmissions
            /\ lastSubmissionTime' = [lastSubmissionTime EXCEPT ![sender] = now]
            /\ batches' = [batches EXCEPT ![currentBatchId] = folded]
            /\ submitted' = [submitted EXCEPT ![currentBatchId] =
                   Append(@, [value |-> Plain(encryptedValue),
                              recipientScore |-> Plain(encryptedRecipientScore),
                              threshold |-> Plain(encryptedThreshold)])]
            /\ lastCall' = Call("analyzeTransaction", sender, 0, TRUE, "none")
            /\ emitted' = << <<"TransactionAnalyzed", currentBatchId, folded.transactionCount>> >>
            /\ UNCHANGED <<owner, isProvider, cooldownSeconds, paused, currentBatchId,
                           decryptionContexts, now, requestCounter, oracleRequests>>

\* ------------------------------------------------- decryption oracle side
\* the authenticity proof the oracle issues over (requestId, cleartexts)
KmsProof(requestId, cleartexts) == <<"kms", requestId, cleartexts>>

\* the same proof with one bit flipped
TamperedProof(requestId, cleartexts) == <<"tampered", requestId, cleartexts>>

FHE_checkSignatures(requestId, cleartexts, proof) ==
    proof = KmsProof(requestId, cleartexts)

\* the cleartexts the oracle returns for a request: the decryption of the
\* four ciphertexts it was handed (four zero words for a handle it never issued)
OracleCleartexts(requestId) ==
    IF oracleRequests[requestId] = <<>>
    THEN <<Zero32, Zero32, Zero32, Zero32>>
    ELSE [i \in 1..4 |-> Plain(oracleRequests[requestId][i])]

\* ------------------------------------------------------ decryption callback
\* mutant: the callback is gated by the pause flag like the other operations
myCallbackError_PauseGated(requestId, cleartexts, proof) ==
    LET ctx == decryptionContexts[requestId]
        batch == batches[ctx.batchId]
        currentHash == hashCiphertexts(Ciphertexts(batch))
    IN
    IF ~whenNotPaused THEN "Paused"
    ELSE IF ctx.processed THEN "ReplayDetected"
    ELSE IF ~batch.active THEN "InvalidBatch"
    ELSE IF currentHash # ctx.stateHash THEN "StateMismatch"
    ELSE IF ~FHE_checkSignatures(requestId, cleartexts, proof) THEN "InvalidProof"
    ELSE "none"

\* the checks of the callback, in the order of the code: the error it
\* reverts with, or "none"
myCallbackError(requestId, cleartexts, proof) ==
    LET ctx == decryptionContexts[requestId]
        batch == batches[ctx.batchId]
        currentHash == hashCiphertexts(Ciphertexts(batch))
    IN
    IF ctx.processed THEN "ReplayDetected"
    ELSE IF ~batch.active THEN "InvalidBatch"
    ELSE IF currentHash # ctx.stateHash THEN "StateMismatch"
    ELSE IF ~FHE_checkSignatures(requestId, cleartexts, proof) THEN "InvalidProof"
    ELSE "none"

myCallback(requestId, cleartexts, proof) ==
    LET ctx == decryptionContexts[requestId]
        proofOk == FHE_checkSignatures(requestId, cleartexts, proof)
        err == myCallbackError(requestId, cleartexts, proof)
    IN
    IF err # "none"
    THEN Revert("myCallback", "oracle", requestId, proofOk, err)
    ELSE
        /\ decryptionContexts' = [decryptionContexts EXCEPT ![requestId].processed = TRUE]
        /\ lastCall' = Call("myCallback", "oracle", requestId, proofOk, "none")
        /\ emitted' = << <<"DecryptionCompleted", requestId, ctx.batchId,
                           cleartexts[1], cleartexts[2], cleartexts[3], cleartexts[4]>> >>
        /\ UNCHANGED <<owner, isProvider, lastSubmissionTime, cooldownSeconds, paused,
                       currentBatchId, batches>>
        /\ UNCHANGED environment

\* --------------------------------------------------------------- the clock
Tick ==
    /\ now < GenesisTime + MaxTicks
    /\ now' = now + 1
    /\ UNCHANGED <<requestCounter, oracleRequests, submitted, lastCall, emitted>>
    /\ UNCHANGED storage
    /\ UNCHANGED webClient

\* ------------------------------------------------------------ environment
DoTransferOwnership ==
    /\ \E s \in Addresses, n \in Addresses : transferOwnership(s, n)
    /\ UNCHANGED webClient

DoAddProvider ==
    /\ \E s \in Addresses, p \in ProviderCandidates : addProvider(s, p)
    /\ UNCHANGED webClient

DoRemoveProvider ==
    /\ \E s \in Addresses, p \in ProviderCandidates : removeProvider(s, p)
    /\ UNCHANGED webClient

DoSetCooldownSeconds ==
    /\ \E s \in Addresses, c \in CooldownChoices : setCooldownSeconds(s, c)
    /\ UNCHANGED webClient

DoPause ==
    /\ \E s \in Addresses : pause(s)
    /\ UNCHANGED webClient

DoUnpause ==
    /\ \E s \in Addresses : unpause(s)
    /\ UNCHANGED webClient

DoOpenBatch ==
    /\ \E s \in Addresses : openBatch(s)
    /\ UNCHANGED webClient

DoCloseBatch ==
    /\ \E s \in Addresses : closeBatch(s)
    /\ UNCHANGED webClient

DoAnalyzeTransaction ==
    /\ \E s \in Addresses, x \in Submissions :
           analyzeTransaction(s, FHE_asEuint32(x[1]), FHE_asEuint32(x[2]), FHE_asEuint32(x[3]))
    /\ UNCHANGED webClient

DoCallback ==
    /\ \E r \in RequestIds, honest \in BOOLEAN :
           LET cleartexts == OracleCleartexts(r) IN
           myCallback(r, cleartexts,
                      IF honest THEN KmsProof(r, cleartexts) ELSE TamperedProof(r, cleartexts))
    /\ UNCHANGED webClient

Next ==
    \/ DoTransferOwnership
    \/ DoAddProvider
    \/ DoRemoveProvider
    \/ DoSetCooldownSeconds
    \/ DoPause
    \/ DoUnpause
    \/ DoOpenBatch
    \/ DoCloseBatch
    \/ DoAnalyzeTransaction
    \/ DoCallback
    \/ Tick

Spec == Init /\ [][Next]_vars

\* ---------------------------------------------------------- fault injection
\* An accumulator of a closed batch is overwritten between the request and
\* the callback. No operation of the contract does this.
FaultInject ==
    \E r \in RequestIds :
        LET b == decryptionContexts[r].batchId IN
        /\ r < requestCounter
        /\ ~decryptionContexts[r].processed
        /\ Ciphertexts(batches[b]) = oracleRequests[r]
        /\ batches' = [batches EXCEPT ![b].encryptedTotalValue =
               FHE_add(@, FHE_asEuint32(One32))]
        /\ lastCall' = Call("faultInjection", "fault", r, TRUE, "none")
        /\ emitted' = <<>>
        /\ UNCHANGED <<owner, isProvider, lastSubmissionTime, cooldownSeconds, paused,
                       currentBatchId, decryptionContexts>>
        /\ UNCHANGED environment
        /\ UNCHANGED webClient

SpecFault == Init /\ [][Next \/ FaultInject]_vars

\* =================================================================== claims
\* Error names of the specification and the errors of the code:
\*   InvalidBatchState, NoActiveBatch -> InvalidBatch
\*   UnknownRequest                   -> (the code has no such error)
\*   ReplayDetected, StateMismatch, InvalidProof -> the same names

\* the handles closeBatch recorded a context for
Issued == 0..(requestCounter - 1)

\* the step is a call of op (every call records itself; the clock does not)
Called(op) == now' = now /\ lastCall'.op = op

\* the accumulators of batch b are the ciphertexts handed to the oracle for r
Unaltered(r) == Ciphertexts(batches[decryptionContexts[r].batchId]) = oracleRequests[r]

CommitmentMatches(r) ==
    LET batch == batches[decryptionContexts[r].batchId] IN
    <<<<batch.encryptedTotalValue, batch.encryptedMaxValue,
        batch.encryptedMinValue, batch.encryptedSuspiciousCount>>, ThisAddress>>
      = decryptionContexts[r].stateHash

CompletedSignal(r) ==
    LET cts == oracleRequests[r] IN
    <<"DecryptionCompleted", r, decryptionContexts[r].batchId,
      Plain(cts[1]), Plain(cts[2]), Plain(cts[3]), Plain(cts[4])>>

\* ---- true aggregates of the plaintexts submitted to a batch
SubmittedValues(b) == { submitted[b][i].value : i \in DOMAIN submitted[b] }

TrueMax(b) == CHOOSE m \in SubmittedValues(b) : \A v \in SubmittedValues(b) : Le32(v, m)

TrueMin(b) == CHOOSE m \in SubmittedValues(b) : \A v \in SubmittedValues(b) : Le32(m, v)

TrueSuspicious(b) ==
    LET n == Cardinality({ i \in DOMAIN submitted[b] :
                             Le32(submitted[b][i].threshold, submitted[b][i].recipientScore) })
    IN  U32(n \div Half, n % Half)

RECURSIVE HalfSums(_)
\* the sums of the high and of the low halves of the values, without wrapping
HalfSums(seq) ==
    IF seq = <<>> THEN <<0, 0>>
    ELSE LET rest == HalfSums(Tail(seq))
         IN  <<Head(seq).value[1] + rest[1], Head(seq).value[2] + rest[2]>>

\* the arithmetic sum as <<sum \div 2^16, sum % 2^16>>: the first component
\* exceeds 2^16 - 1 exactly when the sum exceeds 2^32 - 1
TrueSum(b) ==
    LET h == HalfSums(submitted[b])
    IN  <<h[1] + (h[2] \div Half), h[2] % Half>>

\* C1: for a recorded handle whose batch is unaltered since close, the first
\* callback with a valid proof succeeds (processed set, completed signal with
\* the handle, the batch id and the four decoded values), and a callback for
\* an already processed handle is rejected with ReplayDetected, changing nothing.
C1_ValidCallbackSucceedsOnce ==
    [][ LET r == lastCall'.arg IN
        (Called("myCallback") /\ r \in Issued /\ lastCall'.proofOk /\ Unaltered(r))
        => IF ~decryptionContexts[r].processed
           THEN /\ lastCall'.err = "none"
                /\ decryptionContexts'[r].processed
                /\ emitted' = << CompletedSignal(r) >>
           ELSE /\ lastCall'.err = "ReplayDetected"
                /\ UNCHANGED storage ]_vars

\* C2: the batch owning a recorded context is inactive, and no callback for a
\* recorded handle is rejected because of the batch's active flag.
C2_BatchStateRejectionUnreachable ==
    /\ \A r \in Issued : ~batches[decryptionContexts[r].batchId].active
    /\ (lastCall.op = "myCallback" /\ lastCall.arg \in Issued)
         => lastCall.err # "InvalidBatch"

\* C3: for every batch handed to the oracle at closeBatch, the max accumulator
\* is the largest submitted value, the min accumulator the smallest, and the
\* suspicious count the number of submissions with recipientScore >= threshold.
C3_MaxMinSuspiciousAtClose ==
    \A r \in Issued :
        LET b == decryptionContexts[r].batchId
            cts == oracleRequests[r]
        IN  /\ Len(submitted[b]) >= 1
            /\ cts = Ciphertexts(batches[b])
            /\ Plain(cts[2]) = TrueMax(b)
            /\ Plain(cts[3]) = TrueMin(b)
            /\ Plain(cts[4]) = TrueSuspicious(b)

C3_Witness ==
    \E r \in Issued :
        LET b == decryptionContexts[r].batchId IN
        /\ Len(submitted[b]) = 2
        /\ TrueMax(b) # TrueMin(b)
        /\ TrueSuspicious(b) = One32
        /\ lastCall.op = "closeBatch" /\ lastCall.err = "none"

\* C4: the total accumulator handed to the oracle at closeBatch is the
\* arithmetic (non-wrapping) sum of the submitted values.
C4_TotalIsArithmeticSum ==
    \A r \in Issued :
        Plain(oracleRequests[r][1]) = TrueSum(decryptionContexts[r].batchId)

\* C5: a callback with a valid proof for a recorded, unprocessed handle whose
\* batch accumulators were altered after close is rejected with StateMismatch
\* and processed stays false.
C5_AlteredBatchStateMismatch ==
    [][ LET r == lastCall'.arg IN
        (Called("myCallback") /\ r \in Issued /\ ~decryptionContexts[r].processed
           /\ ~Unaltered(r) /\ lastCall'.proofOk)
        => /\ lastCall'.err = "StateMismatch"
           /\ ~decryptionContexts'[r].processed ]_vars

\* C6: a callback for a recorded, unprocessed handle whose batch state matches
\* the commitment but whose proof does not verify is rejected with
\* InvalidProof, emits no signal and leaves processed false.
C6_BadProofInvalidProof ==
    [][ LET r == lastCall'.arg IN
        (Called("myCallback") /\ r \in Issued /\ ~decryptionContexts[r].processed
           /\ CommitmentMatches(r) /\ ~lastCall'.proofOk)
        => /\ lastCall'.err = "InvalidProof"
           /\ emitted' = <<>>
           /\ ~decryptionContexts'[r].processed ]_vars

\* C7: a callback for a handle closeBatch never recorded is rejected with
\* UnknownRequest and leaves the batch ledger and every context unchanged.
C7_UnknownRequestRejected ==
    [][ (Called("myCallback") /\ lastCall'.arg \notin Issued)
        => /\ lastCall'.err = "UnknownRequest"
           /\ UNCHANGED <<batches, decryptionContexts>> ]_vars

C9_CloseRecordsOneContext ==
    /\ [][ LET batch == batches[currentBatchId]
               r == requestCounter
           IN
           /\ (Called("closeBatch") /\ lastCall'.err = "none" /\ batch.transactionCount > 0)
                => /\ ~batches'[currentBatchId].active
                   /\ requestCounter' = r + 1
                   /\ decryptionContexts'[r] =
                        [batchId |-> batch.id,
                         stateHash |-> <<<<batch.encryptedTotalValue, batch.encryptedMaxValue,
                                           batch.encryptedMinValue,
                                           batch.encryptedSuspiciousCount>>, ThisAddress>>,
                         processed |-> FALSE]
                   /\ batch.id = currentBatchId
                   /\ \A q \in RequestIds \ {r} : decryptionContexts'[q] = decryptionContexts[q]
           /\ (\E q \in RequestIds :
                  \/ decryptionContexts'[q].batchId # decryptionContexts[q].batchId
                  \/ decryptionContexts'[q].stateHash # decryptionContexts[q].stateHash)
                => (Called("closeBatch") /\ lastCall'.err = "none"
                      /\ batch.transactionCount > 0) ]_vars
    /\ [](\A b \in 1..MaxBatches :
             Cardinality({ r \in RequestIds : decryptionContexts[r].batchId = b }) <= 1)
    /\ [](\A r \in RequestIds : decryptionContexts[r] # EmptyContext <=> r \in Issued)

C9_Witness ==
    /\ lastCall.op = "closeBatch" /\ lastCall.err = "none"
    /\ requestCounter = 2
    /\ decryptionContexts[1].batchId = 2
    /\ decryptionContexts[0].batchId = 1

\* C10: an accepted closeBatch on a batch with count 0 deactivates it, issues
\* no decryption request and records no context; afterwards the batch is
\* still stored under its id, inactive, with count 0 and without a context.
C10_EmptyCloseIssuesNoRequest ==
    /\ [][ (Called("closeBatch") /\ lastCall'.err = "none"
              /\ batches[currentBatchId].transactionCount = 0)
           => /\ ~batches'[currentBatchId].active
              /\ batches'[currentBatchId].id = currentBatchId
              /\ batches'[currentBatchId].transactionCount = 0
              /\ UNCHANGED <<requestCounter, oracleRequests, decryptionContexts>>
              /\ emitted' = << <<"BatchClosed", currentBatchId, 0>> >> ]_vars
    /\ [](\A b \in 1..currentBatchId :
             (~batches[b].active /\ Len(submitted[b]) = 0)
             => /\ batches[b].id = b
                /\ batches[b].transactionCount = 0
                /\ \A r \in RequestIds : decryptionContexts[r].batchId # b)

C10_Witness ==
    /\ lastCall.op = "closeBatch" /\ lastCall.err = "none"
    /\ batches[currentBatchId].transactionCount = 0
    /\ currentBatchId = 2
    /\ requestCounter = 1

\* ------------------------------------------------------------------ C11
\* C11: at every moment at most one batch is active, and an active batch is
\* the one currentBatchId names.
C11_OnlyCurrentBatchActive ==
    /\ \A b \in BatchIds : batches[b].active => b = currentBatchId
    /\ Cardinality({b \in BatchIds : batches[b].active}) <= 1

\* a second batch is open after the first one was closed
C11_Witness ==
    /\ currentBatchId = 2
    /\ batches[2].active
    /\ ~batches[1].active
    /\ batches[1].id = 1

\* ------------------------------------------------------------------ C12
\* batch b was opened and has been closed
Closed(b) == b \in 1..currentBatchId /\ batches[b].id = b /\ ~batches[b].active

\* C12: once a batch has been closed, no step (openBatch, closeBatch,
\* analyzeTransaction, registry operation or callback) changes its four
\* accumulators, its transaction count or its active = false flag.
C12_ClosedBatchImmutable ==
    [][ \A b \in BatchIds : Closed(b) => batches'[b] = batches[b] ]_vars

\* a submission has just been folded into batch 2 while batch 1, closed with
\* one submission, kept its record
C12_Witness ==
    /\ lastCall.op = "analyzeTransaction" /\ lastCall.err = "none"
    /\ currentBatchId = 2
    /\ batches[2].transactionCount = 1
    /\ Closed(1)
    /\ batches[1].transactionCount = 1
    /\ Plain(batches[1].encryptedTotalValue) = submitted[1][1].value

\* ------------------------------------------------------------------ C13
\* the operations carrying the onlyOwner modifier
OwnerOps == {"transferOwnership", "addProvider", "removeProvider",
             "setCooldownSeconds", "pause", "unpause", "openBatch", "closeBatch"}

\* C13: there is one owner: the deployer at first, afterwards the target of
\* the latest accepted transferOwnership; an owner operation called by any
\* other identity (a previous owner included) is rejected with NotOwner (the
\* code's name for Unauthorized) and changes no state.
C13_SingleOwnerGuardsOwnerOps ==
    /\ owner = Deployer
    /\ [](owner \in Addresses)
    /\ [][ /\ (lastCall'.op \in OwnerOps /\ now' = now /\ lastCall'.sender # owner)
              => /\ lastCall'.err = "NotOwner"
                 /\ emitted' = <<>>
                 /\ UNCHANGED storage
           /\ (Called("transferOwnership") /\ lastCall'.sender = owner)
              => /\ lastCall'.err = "none"
                 /\ emitted' = << <<"OwnershipTransferred", owner, owner'>> >>
           /\ owner' # owner
              => /\ Called("transferOwnership")
                 /\ lastCall'.sender = owner
                 /\ lastCall'.err = "none" ]_vars

\* the deployer, no longer the owner after a transfer, has just been refused
C13_Witness ==
    /\ owner = "alice"
    /\ lastCall.op \in OwnerOps
    /\ lastCall.sender = Deployer
    /\ lastCall.err = "NotOwner"

\* ------------------------------------------------------------------ C14
\* C14: for a provider whose last accepted submission was at time t, with
\* cooldown c, a call of analyzeTransaction at time t2 (not paused, a batch
\* active) is rejected with CooldownActive when t2 - t < c and accepted when
\* t2 - t >= c.
C14_CooldownBoundary ==
    [][ (/\ Called("analyzeTransaction")
         /\ isProvider[lastCall'.sender]
         /\ ~paused
         /\ batches[currentBatchId].active
         /\ lastSubmissionTime[lastCall'.sender] > 0)
        => IF Lt256(Uint256(now - lastSubmissionTime[lastCall'.sender]), cooldownSeconds)
           THEN lastCall'.err = "CooldownActive" /\ UNCHANGED storage
           ELSE /\ lastCall'.err = "none"
                /\ lastSubmissionTime'[lastCall'.sender] = now ]_vars

\* ------------------------------------------------------------------ C15
\* C15: openBatch by the owner (not paused) while the current batch is
\* active is rejected with BatchNotActive (the code's name for
\* BatchAlreadyOpen), and closeBatch while no batch is active, before any
\* batch was opened or right after a close, is rejected with InvalidBatch
\* (the code's name for NoActiveBatch); both leave the current batch id,
\* every batch and every decryption context unchanged.
C15_OpenCloseStateErrors ==
    [][ /\ (/\ Called("openBatch")
            /\ lastCall'.sender = owner
            /\ ~paused
            /\ batches[currentBatchId].active)
           => /\ lastCall'.err = "BatchNotActive"
              /\ UNCHANGED <<currentBatchId, batches, decryptionContexts>>
        /\ (/\ Called("closeBatch")
            /\ lastCall'.sender = owner
            /\ ~paused
            /\ \A b \in BatchIds : ~batches[b].active)
           => /\ lastCall'.err = "InvalidBatch"
              /\ UNCHANGED <<currentBatchId, batches, decryptionContexts>> ]_vars

\* a second closeBatch right after the close of a batch with submissions has
\* been refused
C15_Witness ==
    /\ lastCall.op = "closeBatch"
    /\ lastCall.err = "InvalidBatch"
    /\ lastCall.sender = owner
    /\ Closed(1)
    /\ currentBatchId = 1
    /\ batches[1].transactionCount >= 1
    /\ requestCounter = 1

\* ------------------------------------------------------------------ C16
\* the operations carrying the whenNotPaused modifier besides pause itself
PauseGatedOps == {"openBatch", "closeBatch", "analyzeTransaction"}

\* C16: while the pause flag is set, openBatch and closeBatch by the owner
\* and analyzeTransaction by a provider are rejected with Paused (the code's
\* name for SystemPaused), no caller gets any of the three accepted, and so
\* no batch record and not the current batch id changes and no decryption
\* context is created.
C16_PausedLedgerFrozen ==
    [][ paused =>
          /\ (/\ lastCall'.op \in {"openBatch", "closeBatch"}
              /\ now' = now
              /\ lastCall'.sender = owner)
             => lastCall'.err = "Paused"
          /\ (Called("analyzeTransaction") /\ isProvider[lastCall'.sender])
             => lastCall'.err = "Paused"
          /\ (lastCall'.op \in PauseGatedOps /\ now' = now)
             => lastCall'.err # "none" /\ UNCHANGED storage
          /\ UNCHANGED <<batches, currentBatchId, requestCounter, oracleRequests>>
          /\ \A r \in RequestIds :
                /\ decryptionContexts'[r].batchId = decryptionContexts[r].batchId
                /\ decryptionContexts'[r].stateHash = decryptionContexts[r].stateHash
      ]_vars

\* a provider's submission to an active batch has been refused because the
\* contract is paused
C16_Witness ==
    /\ paused
    /\ lastCall.op = "analyzeTransaction"
    /\ lastCall.err = "Paused"
    /\ isProvider[lastCall.sender]
    /\ batches[currentBatchId].active
    /\ batches[currentBatchId].transactionCount = 1

\* ------------------------------------------------------------------ C17
\* the registry operations
RegistryOps == {"addProvider", "removeProvider", "setCooldownSeconds", "transferOwnership"}

\* C17: while the pause flag is set, addProvider, removeProvider,
\* setCooldownSeconds and transferOwnership are rejected and change no state.
C17_PauseGatesRegistry ==
    [][ (paused /\ lastCall'.op \in RegistryOps /\ now' = now)
        => lastCall'.err # "none" /\ UNCHANGED storage ]_vars

\* ------------------------------------------------------------------ C18
\* the outcome of the callback for handle r with the oracle's cleartexts and
\* an honest or a tampered proof, were it called in the present state
CallbackOutcome(r, honest) ==
    LET cleartexts == OracleCleartexts(r) IN
    myCallbackError(r, cleartexts,
                    IF honest THEN KmsProof(r, cleartexts)
                              ELSE TamperedProof(r, cleartexts))

\* C18: the pause flag never affects the callback. A step that flips the
\* flag leaves two states that differ in the flag only, and in the two the
\* callback has the same outcome for every handle and proof; a callback
\* step is never refused for the pause, leaves the flag alone, and changes
\* the context only when it is accepted.
C18_PauseNeverAffectsCallback ==
    [][ /\ (paused' # paused)
           => /\ UNCHANGED <<owner, isProvider, lastSubmissionTime, cooldownSeconds,
                             currentBatchId, batches, decryptionContexts>>
              /\ UNCHANGED environment
              /\ \A r \in RequestIds, honest \in BOOLEAN :
                    CallbackOutcome(r, honest)' = CallbackOutcome(r, honest)
        /\ Called("myCallback")
           => /\ paused' = paused
              /\ lastCall'.err # "Paused"
              /\ lastCall'.err = CallbackOutcome(lastCall'.arg, lastCall'.proofOk)
              /\ (lastCall'.err # "none" => UNCHANGED storage) ]_vars

\* the callback for a recorded handle, with a valid proof, has run while the
\* contract was paused
C18_Witness ==
    /\ paused
    /\ lastCall.op = "myCallback"
    /\ lastCall.arg \in Issued
    /\ lastCall.proofOk
    /\ lastCall.err # "Paused"

\* ------------------------------------------------------------------ C19
\* C19: pause by the owner when already paused is rejected and leaves the
\* flag set; unpause by the owner when not paused is rejected and leaves it
\* clear (the code reports both with its one error Paused, where the spec
\* says AlreadyPaused and NotPaused); otherwise pause sets the flag and
\* unpause clears it, and nothing else changes the flag.
C19_PauseFlagProtocol ==
    [][ /\ (Called("pause") /\ lastCall'.sender = owner)
           => IF paused
              THEN lastCall'.err = "Paused" /\ paused' /\ UNCHANGED storage
              ELSE /\ lastCall'.err = "none" /\ paused'
                   /\ emitted' = << <<"PausedContract", owner>> >>
        /\ (Called("unpause") /\ lastCall'.sender = owner)
           => IF ~paused
              THEN lastCall'.err = "Paused" /\ ~paused' /\ UNCHANGED storage
              ELSE /\ lastCall'.err = "none" /\ ~paused'
                   /\ emitted' = << <<"UnpausedContract", owner>> >>
        /\ (paused' # paused)
           => /\ now' = now
              /\ lastCall'.op = (IF paused THEN "unpause" ELSE "pause")
              /\ lastCall'.sender = owner
              /\ lastCall'.err = "none" ]_vars

\* the unpause of a contract that is not paused, called by an owner who got
\* the ownership by transfer, has been refused
C19_Witness ==
    /\ ~paused
    /\ lastCall.op = "unpause"
    /\ lastCall.sender = owner
    /\ lastCall.err = "Paused"
    /\ owner = "alice"

\* ------------------------------------------------------------------ C20
\* C20: per request handle the only transition is Pending -> Completed: a
\* recorded context is never deleted, its batchId and its commitment never
\* change after creation, and processed, once true, never becomes false
\* (the oracle hands out each handle once).
C20_ContextOnlyCompletes ==
    /\ [](\A r \in Issued :
             /\ decryptionContexts[r].batchId \in 1..currentBatchId
             /\ decryptionContexts[r].stateHash # ZeroHash)
    /\ [][ \A r \in Issued :
             /\ r < requestCounter'
             /\ decryptionContexts'[r].batchId = decryptionContexts[r].batchId
             /\ decryptionContexts'[r].stateHash = decryptionContexts[r].stateHash
             /\ (decryptionContexts[r].processed => decryptionContexts'[r].processed)
         ]_vars

\* a second context has just been recorded beside the first one
C20_Witness ==
    /\ lastCall.op = "closeBatch" /\ lastCall.err = "none"
    /\ requestCounter = 2
    /\ decryptionContexts[0].batchId = 1
    /\ decryptionContexts[1].batchId = 2
    /\ decryptionContexts[0].stateHash # decryptionContexts[1].stateHash

\* ------------------------------------------------------------------ C21
\* C21: a rejected analyzeTransaction leaves all state unchanged, the
\* caller's last-submission timestamp included: a provider rejected because
\* no batch is active is not put on cooldown, and its submission is accepted
\* once a batch is open (its timestamp still 0, the cooldown not longer than
\* the current time).
C21_RejectedAnalyzeChangesNothing ==
    [][ /\ (Called("analyzeTransaction") /\ lastCall'.err # "none")
           => /\ UNCHANGED storage
              /\ UNCHANGED environment
              /\ emitted' = <<>>
        /\ (/\ Called("analyzeTransaction")
            /\ isProvider[lastCall'.sender]
            /\ ~paused
            /\ ~batches[currentBatchId].active
            /\ ~Lt256(Uint256(now), cooldownSeconds)
            /\ lastSubmissionTime[lastCall'.sender] = 0)
           => /\ lastCall'.err = "InvalidBatch"
              /\ lastSubmissionTime'[lastCall'.sender] = 0
        /\ (/\ Called("analyzeTransaction")
            /\ isProvider[lastCall'.sender]
            /\ ~paused
            /\ batches[currentBatchId].active
            /\ ~Lt256(Uint256(now), cooldownSeconds)
            /\ lastSubmissionTime[lastCall'.sender] = 0)
           => /\ lastCall'.err = "none"
              /\ lastSubmissionTime'[lastCall'.sender] = now ]_vars

\* a provider has just been rejected because no batch is active (batch 1 was
\* closed), and its timestamp is still 0
C21_Witness ==
    /\ lastCall.op = "analyzeTransaction"
    /\ lastCall.err = "InvalidBatch"
    /\ isProvider[lastCall.sender]
    /\ lastSubmissionTime[lastCall.sender] = 0
    /\ Closed(1)
    /\ currentBatchId = 1

\* ------------------------------------------------------------------ C22
\* C22: without fault injection, in every reachable state the commitment
\* recomputed from the owning batch's current accumulators equals the stored
\* commitment of every recorded context, whatever happened since the close;
\* so no callback is rejected with StateMismatch.
C22_CommitmentAlwaysMatches ==
    /\ \A r \in Issued :
          hashCiphertexts(Ciphertexts(batches[decryptionContexts[r].batchId]))
            = decryptionContexts[r].stateHash
    /\ lastCall.err # "StateMismatch"

\* after the context of batch 1 was recorded, batch 2 was opened and has just
\* received a submission
C22_Witness ==
    /\ 0 \in Issued
    /\ decryptionContexts[0].batchId = 1
    /\ currentBatchId = 2
    /\ lastCall.op = "analyzeTransaction" /\ lastCall.err = "none"
    /\ batches[2].transactionCount = 1
    /\ batches[2].encryptedTotalValue # batches[1].encryptedTotalValue

\* ------------------------------------------------------------------ C23
\* C23: each accepted analyzeTransaction increases the current batch's
\* transaction count by exactly 1 and emits TransactionAnalyzed with the new
\* count; a rejected one leaves every count alone; openBatch starts the new
\* batch at 0; and in every state a batch's count is the number of
\* submissions accepted while it was active.
C23_CountIsAcceptedSubmissions ==
    /\ [](\A b \in BatchIds : batches[b].transactionCount = Len(submitted[b]))
    /\ [][ /\ (Called("analyzeTransaction") /\ lastCall'.err = "none")
              => /\ batches'[currentBatchId].transactionCount
                      = batches[currentBatchId].transactionCount + 1
                 /\ emitted' = << <<"TransactionAnalyzed", currentBatchId,
                                    batches'[currentBatchId].transactionCount>> >>
                 /\ \A b \in BatchIds \ {currentBatchId} :
                       batches'[b].transactionCount = batches[b].transactionCount
           /\ (Called("analyzeTransaction") /\ lastCall'.err # "none")
              => \A b \in BatchIds :
                    batches'[b].transactionCount = batches[b].transactionCount
           /\ (Called("openBatch") /\ lastCall'.err = "none")
              => batches'[currentBatchId'].transactionCount = 0 ]_vars

\* the second submission to one batch has just been accepted
C23_Witness ==
    /\ lastCall.op = "analyzeTransaction" /\ lastCall.err = "none"
    /\ batches[currentBatchId].transactionCount = 2
    /\ emitted = << <<"TransactionAnalyzed", currentBatchId, 2>> >>

\* ------------------------------------------------------------------ C24
\* Submissions of several providers: the owner registers any identity as a
\* provider, so that two providers submit to one batch in either order.
DoAddAnyProvider ==
    /\ \E s \in Addresses, p \in Addresses : addProvider(s, p)
    /\ UNCHANGED webClient

NextInterleave ==
    \/ DoAddAnyProvider
    \/ DoOpenBatch
    \/ DoCloseBatch
    \/ DoAnalyzeTransaction
    \/ Tick

SpecInterleave == Init /\ [][NextInterleave]_vars

RECURSIVE FoldAll(_, _)
\* the batch record after the submissions subs were folded in, first to last
FoldAll(batch, subs) ==
    IF subs = <<>> THEN batch
    ELSE FoldAll(Fold(batch, FHE_asEuint32(Head(subs).value),
                             FHE_asEuint32(Head(subs).recipientScore),
                             FHE_asEuint32(Head(subs).threshold)),
                 Tail(subs))

\* the four accumulators and the count of a batch record
Accumulators(batch) ==
    <<batch.encryptedTotalValue, batch.encryptedMaxValue, batch.encryptedMinValue,
      batch.encryptedSuspiciousCount, batch.transactionCount>>

\* the submissions subs in the order p
Reordered(subs, p) == [i \in DOMAIN subs |-> subs[p[i]]]

\* C24: the four accumulators and the count of a batch do not depend on the
\* order in which its accepted submissions were serialised: folding the same
\* submissions in any order gives the batch's record, and the count is the
\* number of accepted submissions (none is lost).
C24_OrderIndependent ==
    \A b \in 1..currentBatchId :
        /\ batches[b].transactionCount = Len(submitted[b])
        /\ \A p \in Permutations(DOMAIN submitted[b]) :
              Accumulators(FoldAll(NewBatch(b), Reordered(submitted[b], p)))
                = Accumulators(batches[b])

\* two providers have each had one submission accepted into batch 1, with
\* different values, scores and thresholds
C24_Witness ==
    /\ \A a \in Addresses : isProvider[a] /\ lastSubmissionTime[a] > 0
    /\ batches[1].transactionCount = 2
    /\ submitted[1][1] # submitted[1][2]
    /\ Plain(batches[1].encryptedSuspiciousCount) = One32

\* ------------------------------------------------------------------ C25
\* the handles whose context is recorded and not yet processed
Outstanding == {r \in Issued : ~decryptionContexts[r].processed}

\* C25: decryption contexts are independent. With two or more outstanding
\* handles, a callback for one of them never changes another handle's
\* context or any batch, and with a valid proof it is accepted, in whatever
\* order the callbacks arrive.
C25_ContextsIndependent ==
    [][ (/\ Called("myCallback")
         /\ Cardinality(Outstanding) >= 2
         /\ lastCall'.arg \in Outstanding)
        => /\ \A r \in RequestIds \ {lastCall'.arg} :
                 decryptionContexts'[r] = decryptionContexts[r]
           /\ batches' = batches
           /\ lastCall'.proofOk
              => /\ lastCall'.err = "none"
                 /\ decryptionContexts'[lastCall'.arg].processed ]_vars

\* ------------------------------------------------------------------ C26
\* C26: batch ids are allocated from 1 without gaps. The current batch id
\* starts at 0, every accepted openBatch raises it by one and creates the
\* batch of that id under that key, nothing else changes it (so it is the
\* number of accepted openBatch calls and never decreases), and the record
\* under key 0 is never active and never receives a contribution.
C26_SequentialBatchIds ==
    /\ currentBatchId = 0
    /\ [](/\ \A b \in 1..currentBatchId : batches[b].id = b
          /\ \A b \in BatchIds : b > currentBatchId => batches[b] = EmptyBatch
          /\ batches[0] = EmptyBatch
          /\ submitted[0] = <<>>)
    /\ [][ /\ (Called("openBatch") /\ lastCall'.err = "none")
              => /\ currentBatchId' = currentBatchId + 1
                 /\ batches'[currentBatchId'].id = currentBatchId'
                 /\ batches'[currentBatchId'].active
                 /\ emitted' = << <<"BatchOpened", currentBatchId'>> >>
           /\ (currentBatchId' # currentBatchId)
              => /\ Called("openBatch") /\ lastCall'.err = "none"
                 /\ currentBatchId' > currentBatchId ]_vars

\* the second accepted openBatch has just created batch 2 under key 2
C26_Witness ==
    /\ lastCall.op = "openBatch" /\ lastCall.err = "none"
    /\ currentBatchId = 2
    /\ batches[2].id = 2 /\ batches[2].active
    /\ batches[1].id = 1
    /\ emitted = << <<"BatchOpened", 2>> >>

\* ------------------------------------------------------------------ C27
\* C27: provider membership is an idempotent toggle. addProvider by the
\* owner (not paused) succeeds and leaves its target a provider, changing
\* nothing when it already was one; removeProvider succeeds and leaves its
\* target a non-provider, changing nothing when it already was none; no
\* other identity's membership and nothing else changes membership; and an
\* identity that is not a provider is rejected by analyzeTransaction with
\* NotProvider, with no change of state.
C27_MembershipIdempotent ==
    [][ /\ (Called("addProvider") /\ lastCall'.sender = owner /\ ~paused)
           => /\ lastCall'.err = "none"
              /\ Len(emitted') = 1 /\ emitted'[1][1] = "ProviderAdded"
              /\ isProvider' = [isProvider EXCEPT ![emitted'[1][2]] = TRUE]
              /\ (isProvider[emitted'[1][2]] => isProvider' = isProvider)
        /\ (Called("removeProvider") /\ lastCall'.sender = owner /\ ~paused)
           => /\ lastCall'.err = "none"
              /\ Len(emitted') = 1 /\ emitted'[1][1] = "ProviderRemoved"
              /\ isProvider' = [isProvider EXCEPT ![emitted'[1][2]] = FALSE]
              /\ (~isProvider[emitted'[1][2]] => isProvider' = isProvider)
        /\ (isProvider' # isProvider)
           => /\ lastCall'.op \in {"addProvider", "removeProvider"}
              /\ now' = now
              /\ lastCall'.err = "none"
        /\ (Called("analyzeTransaction") /\ ~isProvider[lastCall'.sender])
           => /\ lastCall'.err = "NotProvider"
              /\ UNCHANGED storage ]_vars

\* alice, a provider with an accepted submission and then removed, has just
\* been refused
C27_Witness ==
    /\ lastCall.op = "analyzeTransaction"
    /\ lastCall.err = "NotProvider"
    /\ lastCall.sender = "alice"
    /\ ~isProvider["alice"]
    /\ lastSubmissionTime["alice"] > 0

\* ------------------------------------------------------------------ C28
\* C28: a provider that never had a submission accepted (its timestamp is
\* still 0) is never rejected with CooldownActive: whatever the cooldown and
\* the time, its first analyzeTransaction (not paused, a batch active) is
\* accepted; and a provider's timestamp changes only by its own accepted
\* submission.
C28_FirstSubmissionNeverOnCooldown ==
    [][ /\ (/\ Called("analyzeTransaction")
            /\ isProvider[lastCall'.sender]
            /\ ~paused
            /\ batches[currentBatchId].active
            /\ lastSubmissionTime[lastCall'.sender] = 0)
           => /\ lastCall'.err # "CooldownActive"
              /\ lastCall'.err = "none"
        /\ \A a \in Addresses :
              (lastSubmissionTime'[a] # lastSubmissionTime[a])
              => /\ Called("analyzeTransaction")
                 /\ lastCall'.sender = a
                 /\ lastCall'.err = "none" ]_vars

\* ------------------------------------------------------------------ C29
\* The web client's submitTransaction, one action per awaited call. The
\* contract's state is not touched by it.
contractState == <<storage, environment, lastCall, emitted>>

\* the record is stored under transaction_<txId>
submitStoreRecord(c) ==
    LET txId == <<c, webClients[c].completed + 1>> IN
    /\ webClients[c].pc = "idle"
    /\ webClients[c].completed < MaxClientSubmissions
    /\ dataStore' = setData(RecordKey(txId), Stringify(txId))
    /\ webClients' = [webClients EXCEPT ![c].pc = "stored", ![c].txId = txId]
    /\ UNCHANGED contractState

\* the key list is read and parsed
submitReadKeys(c) ==
    /\ webClients[c].pc = "stored"
    /\ webClients' = [webClients EXCEPT ![c].pc = "read",
                                        ![c].keys = ParseKeys(getData(KeysKey))]
    /\ UNCHANGED dataStore
    /\ UNCHANGED contractState

\* the id is appended to the list read before, and the list is written back
submitWriteKeys(c) ==
    LET keys == Append(webClients[c].keys, webClients[c].txId) IN
    /\ webClients[c].pc = "read"
    /\ dataStore' = setData(KeysKey, Stringify(keys))
    /\ webClients' = [webClients EXCEPT ![c].pc = "idle", ![c].keys = <<>>,
                                        ![c].completed = @ + 1]
    /\ UNCHANGED contractState

NextClient ==
    \E c \in Clients :
        \/ submitStoreRecord(c)
        \/ submitReadKeys(c)
        \/ submitWriteKeys(c)

SpecClient == Init /\ [][NextClient]_vars

\* the ids of the records that are stored
StoredRecords == {txId \in TxIds : Len(getData(RecordKey(txId))) > 0}

\* the ids in the stored key list
StoredKeys ==
    LET keys == ParseKeys(getData(KeysKey)) IN {keys[i] : i \in DOMAIN keys}

\* C29: when every submitTransaction call that was started has completed,
\* the stored transaction_keys list contains the id of every stored record.
C29_KeyListLosesNoId ==
    (\A c \in Clients : webClients[c].pc = "idle") => StoredRecords \subseteq StoredKeys

====
